---- MODULE Spec2Model ----
(***************************************************************************)
(* KickStart agent for GitHub: the credential stores (github_tools.py's    *)
(* process-wide client, api.py's user_sessions), the eight tools of        *)
(* github_tools.py run against a remote repository, the HTTP endpoints of  *)
(* api.py, the form script of app.py and the agent run with its captured   *)
(* standard output.                                                        *)
(***************************************************************************)
EXTENDS Naturals, Integers, Sequences, FiniteSets, TLC

\* ------------------------------------------------------------------ values

\* Python's None.
None == "None"

\* A key that is not in a dict.
Absent == "Absent"

\* Access tokens; the remote platform accepts ValidTokens only.
Tokens == {"tokA", "tokB", "tokBad"}

ValidTokens == {"tokA", "tokB"}

\* Python truthiness of a str | None value.
Truthy(v) == v # None /\ v # ""

\* Bound: commits on the default branch.
MaxCommits == 3

SessionIds == {"s1", "s2"}

\* Repository names a caller may pass, and the ones the remote has.
RepoNames == {"acme/widgets", "acme/ghost"}

RemoteRepos == {"acme/widgets"}

\* Which account (token) sees which repository.
AccountRepos(tok) == IF tok = "tokA" THEN <<"acme/widgets">> ELSE <<>>

\* Blob paths of the repository, the directories above them, and git's tree order.
Paths == {"a", "b", "c", "d/a", "d/b", "e/a"}

Dirs == {"d", "e"}

TreeOrder == <<"a", "b", "c", "d", "d/a", "d/b", "e", "e/a">>

\* The paths a caller passes to the file tools.
ToolPaths == {"a", "d/b"}

\* A path as its characters.
Chars(p) ==
    CASE p = "a" -> <<"a">>
      [] p = "b" -> <<"b">>
      [] p = "c" -> <<"c">>
      [] p = "d" -> <<"d">>
      [] p = "e" -> <<"e">>
      [] p = "d/a" -> <<"d", "/", "a">>
      [] p = "d/b" -> <<"d", "/", "b">>
      [] p = "e/a" -> <<"e", "/", "a">>

\* The directory a path lies in ("" at the top).
Parent(p) ==
    IF Len(Chars(p)) = 3 THEN Chars(p)[1] ELSE ""

BranchNames == {"feature/x"}

Issues == {1}

IssueNumbers == {1, 2}

\* Browser sessions of the form front end that are modelled in full.
StSessions == {"u1"}

\* The task keys of app.py's task_options.
TaskKeys == {"feature", "debug", "file_write", "file_read", "file_delete"}

\* selected_repo = None, goal_to_run = None.
NoRepo == <<>>

NoGoal == [task |-> "", repo |-> NoRepo, run |-> FALSE]

\* Concurrent agent runs (requests of the API, script runs of the form).
Runs == {"r1", "r2"}

\* Bound: diagnostic lines the tools of one agent run print.
MaxLines == 2

\* Bound: tool invocations the agent makes in one run of the form front end.
MaxInvocations == 2

\* No agent run was started by the session's last script run.
NoRun == [owner |-> "", used |-> <<>>]

NoOut ==
    [how |-> "", http |-> 0, status |-> "", message |-> "", output |-> "",
     logs |-> <<>>, ran |-> FALSE, authed |-> FALSE, failure |-> ""]

NoResp ==
    [session |-> "", http |-> 0, status |-> "", message |-> "", repos |-> <<>>,
     calls |-> <<>>, authed |-> FALSE]

\* The names of the remote operations the tools call.
RemoteOps ==
    {"get_user", "get_repos", "get_repo", "get_git_tree", "get_contents",
     "decode", "update_file", "create_file", "delete_file", "get_branch",
     "create_git_ref", "create_pull", "get_issue"}

\* The message of the RuntimeError raised by _ensure_client.
NotConfigured == "GitHub token not configured. Please set a token to continue."

VARIABLES
    github_client,   \* github_tools.github_client: the token of the client, or None
    env_pat,         \* os.environ["GITHUB_PAT"], or None when unset
    user_sessions,   \* api.user_sessions: session id -> token | None | Absent
    stored,          \* history: store key -> the credential last set, Absent once cleared
    files,           \* remote, default branch: path -> commit that wrote it, 0 = absent
    head,            \* remote, default branch: tip commit
    branches,        \* remote: branch name -> tip commit, -1 = absent
    pulls,           \* remote: head branches with an open pull request
    inv,             \* the last tool invocation: arguments, remote calls, result
    st_pat,          \* app.py: st.session_state.github_pat of each browser session
    offered,         \* app.py: the options of the repository selectbox as rendered
    selected,        \* app.py: selected_repo of the last script run
    goal,            \* app.py: goal_to_run of the last script run
    run_cred,        \* history: per session, the github_pat its agent run started
                     \* with and the client each tool invocation of the run used
    frontend,        \* which front end this process is: "api" or "app"
    agent_cache,     \* app.py: what st.cache_resource holds for load_agent
    pc,              \* agent run -> where it is
    sys_stdout,      \* sys.stdout: "console" or the run whose StringIO it is
    saved,           \* agent run -> the target redirect_stdout will restore
    stream,          \* agent run -> the lines in its log_stream
    printed,         \* history: agent run -> the lines its own tools printed
    out,             \* agent run -> what the request or script run ended with
    resp             \* the last response of /user/repos

credVars == <<github_client, env_pat, user_sessions, stored>>

remoteVars == <<files, head, branches, pulls>>

formVars == <<st_pat, offered, selected, goal, run_cred>>

runVars == <<frontend, agent_cache, pc, sys_stdout, saved, stream, printed, out, resp>>

\* ------------------------------------------------- github_tools.py: client

\* Mutant of set_github_token: clearing leaves GITHUB_PAT in the environment.
set_github_token_keeps_env(token) ==
    IF Truthy(token)
    THEN [client |-> token, env |-> token]
    ELSE [client |-> None, env |-> env_pat]

\* set_github_token: the (github_client, env_pat) after the call.
set_github_token(token) ==
    IF Truthy(token)
    THEN [client |-> token, env |-> token]
    ELSE [client |-> None, env |-> None]

\* _init_client_from_env: the client after the call.
_init_client_from_env(client, env) ==
    IF Truthy(env) THEN env ELSE client

\* _ensure_client: the client after the call; None means it raised RuntimeError.
_ensure_client(client, env) ==
    IF client = None THEN _init_client_from_env(client, env) ELSE client

\* ------------------------------------------------- the remote platform

\* One remote call: its status. A token the platform does not accept is
\* answered 401, a call in flaky fails in transit (503), otherwise the call
\* succeeds when the platform's precondition holds and is refused with
\* refusal when it does not.
Call(op, tok, flaky, precondition, refusal) ==
    [op |-> op, sha |-> 0,
     st |-> IF tok \notin ValidTokens THEN "401"
            ELSE IF op \in flaky THEN "503"
            ELSE IF precondition THEN "ok" ELSE refusal]

Remote == [files |-> files, head |-> head, branches |-> branches, pulls |-> pulls]

\* Mutant of Commit: the commit is made on every existing branch as well.
Commit_on_every_branch(path, removes) ==
    [files |-> [files EXCEPT ![path] = IF removes THEN 0 ELSE head + 1],
     head |-> head + 1,
     branches |-> [b \in BranchNames |-> IF branches[b] = -1 THEN -1 ELSE head + 1],
     pulls |-> pulls]

\* A commit on the default branch that writes (sha # 0) or removes path.
Commit(path, removes) ==
    [files |-> [files EXCEPT ![path] = IF removes THEN 0 ELSE head + 1],
     head |-> head + 1, branches |-> branches, pulls |-> pulls]

\* The recursive tree of the default branch, in tree order.
TreeOf(f) ==
    LET present(p) == IF p \in Dirs THEN \E q \in Paths : Parent(q) = p /\ f[q] # 0
                      ELSE f[p] # 0
        live == SelectSeq(TreeOrder, present)
    IN [i \in 1..Len(live) |->
          [path |-> live[i], type |-> IF live[i] \in Dirs THEN "tree" ELSE "blob"]]

\* ------------------------------------------------- strings

\* sep.join(parts) on strings held as sequences of characters.
RECURSIVE Join(_, _)
Join(parts, sep) ==
    IF Len(parts) = 0 THEN <<>>
    ELSE IF Len(parts) = 1 THEN parts[1]
    ELSE parts[1] \o sep \o Join(Tail(parts), sep)

\* str.split(sep) for a one-character sep: the pieces between its occurrences.
RECURSIVE Split(_, _)
Split(s, sep) ==
    IF \A i \in 1..Len(s) : s[i] # sep THEN <<s>>
    ELSE LET k == CHOOSE i \in 1..Len(s) : s[i] = sep /\ \A j \in 1..(i - 1) : s[j] # sep
         IN <<SubSeq(s, 1, k - 1)>> \o Split(SubSeq(s, k + 1, Len(s)), sep)

\* The newline character.
NL == "LF"

\* The separator list_repository_files joins with: the literal "\\n" of the
\* source, a backslash followed by the letter n.
ListSeparator == <<"\\", "n">>

\* ------------------------------------------------- github_tools.py: tools

\* Mutant of EnsureRaises: the "is None" check is missing, the tool goes on.
EnsureRaises_unchecked(client) == FALSE

\* _ensure_client raises RuntimeError when there is still no client.
EnsureRaises(client) == client = None

\* A tool body that raised msg after making calls; the remote is as it was.
Raise(msg, calls) ==
    [exc |-> msg, ret |-> <<>>, list |-> <<>>, chars |-> <<>>,
     calls |-> calls, remote |-> Remote]

\* A tool body that returned: a formatted text, a list of names or a listing.
Return(ret, list, chars, calls, remote) ==
    [exc |-> None, ret |-> ret, list |-> list, chars |-> chars,
     calls |-> calls, remote |-> remote]

\* Mutant of Except: the handler is missing and the exception leaves the tool.
Except_rethrow(prefix, body) ==
    IF body.exc # None
    THEN [raised |-> TRUE, kind |-> "", text |-> <<>>, list |-> <<>>, chars |-> <<>>]
    ELSE [raised |-> FALSE, kind |-> "success", text |-> body.ret,
          list |-> body.list, chars |-> body.chars]

\* "except Exception as e: return f'{prefix}{e}'": what the tool hands back.
Except(prefix, body) ==
    IF body.exc # None
    THEN [raised |-> FALSE, kind |-> "error", text |-> <<prefix, body.exc>>,
          list |-> <<>>, chars |-> <<>>]
    ELSE [raised |-> FALSE, kind |-> "success", text |-> body.ret,
          list |-> body.list, chars |-> body.chars]

\* list_my_repositories' handler: the error text as the only element of a list.
ExceptList(prefix, body) ==
    IF body.exc # None
    THEN [raised |-> FALSE, kind |-> "error", text |-> <<>>,
          list |-> << <<prefix, body.exc>> >>, chars |-> <<>>]
    ELSE [raised |-> FALSE, kind |-> "success", text |-> <<>>,
          list |-> body.list, chars |-> <<>>]

\* The error prefix of each tool.
ErrorPrefix(tool) ==
    CASE tool = "list_my_repositories" -> "Error listing repositories: "
      [] tool = "list_repository_files" -> "Error listing files: "
      [] tool = "read_file" -> "Error reading file: "
      [] tool = "create_or_update_file" -> "Error creating or updating file: "
      [] tool = "delete_file" -> "Error deleting file: "
      [] tool = "create_branch" -> "Error creating branch: "
      [] tool = "create_pull_request" -> "Error creating pull request: "
      [] tool = "get_issue_details" -> "Error getting issue details: "

list_my_repositories_body(client, flaky) ==
    LET c_user == Call("get_user", client, flaky, TRUE, "ok")
        c_repos == Call("get_repos", client, flaky, TRUE, "ok")
        names == AccountRepos(client)
    IN IF EnsureRaises(client) THEN Raise(NotConfigured, <<>>)
       ELSE IF c_user.st # "ok" THEN Raise(c_user.st, <<c_user>>)
       ELSE IF c_repos.st # "ok" THEN Raise(c_repos.st, <<c_user, c_repos>>)
       ELSE Return(<<>>, [i \in 1..Len(names) |-> <<names[i]>>], <<>>,
                   <<c_user, c_repos>>, Remote)

\* [element.path for element in tree if element.type == 'blob'], joined.
ListingOf(tree) ==
    LET blobs == SelectSeq(tree, LAMBDA e : e.type = "blob")
    IN Join([i \in 1..Len(blobs) |-> Chars(blobs[i].path)], ListSeparator)

list_repository_files_body(client, repo, flaky) ==
    LET c_repo == Call("get_repo", client, flaky, repo \in RemoteRepos, "404")
        c_tree == Call("get_git_tree", client, flaky, TRUE, "ok")
    IN IF EnsureRaises(client) THEN Raise(NotConfigured, <<>>)
       ELSE IF c_repo.st # "ok" THEN Raise(c_repo.st, <<c_repo>>)
       ELSE IF c_tree.st # "ok" THEN Raise(c_tree.st, <<c_repo, c_tree>>)
       ELSE Return(<<>>, <<>>, ListingOf(TreeOf(files)), <<c_repo, c_tree>>, Remote)

read_file_body(client, repo, path, flaky) ==
    LET c_repo == Call("get_repo", client, flaky, repo \in RemoteRepos, "404")
        c_get == Call("get_contents", client, flaky, files[path] # 0, "404")
    IN IF EnsureRaises(client) THEN Raise(NotConfigured, <<>>)
       ELSE IF c_repo.st # "ok" THEN Raise(c_repo.st, <<c_repo>>)
       ELSE IF c_get.st # "ok" THEN Raise(c_get.st, <<c_repo, c_get>>)
       ELSE Return(<<"content@", ToString(files[path])>>, <<>>, <<>>,
                   <<c_repo, c_get>>, Remote)

\* The inner try of create_or_update_file: the lookup, then update_file; any
\* exception of either leads to the except branch, which calls create_file.
create_or_update_file_body(client, repo, path, flaky) ==
    LET c_repo == Call("get_repo", client, flaky, repo \in RemoteRepos, "404")
        c_get == Call("get_contents", client, flaky, files[path] # 0, "404")
        sha == files[path]
        c_upd == [Call("update_file", client, flaky, files[path] = sha, "409")
                    EXCEPT !.sha = sha]
        c_new == Call("create_file", client, flaky, files[path] = 0, "422")
        tried == IF c_get.st = "ok" THEN <<c_repo, c_get, c_upd>> ELSE <<c_repo, c_get>>
    IN IF EnsureRaises(client) THEN Raise(NotConfigured, <<>>)
       ELSE IF c_repo.st # "ok" THEN Raise(c_repo.st, <<c_repo>>)
       ELSE IF c_get.st = "ok" /\ c_upd.st = "ok"
            THEN Return(<<"Successfully updated file '", path, "'.">>, <<>>, <<>>,
                        tried, Commit(path, FALSE))
       ELSE IF c_new.st = "ok"
            THEN Return(<<"Successfully created file '", path, "'.">>, <<>>, <<>>,
                        tried \o <<c_new>>, Commit(path, FALSE))
       ELSE Raise(c_new.st, tried \o <<c_new>>)

\* Mutant of delete_file_body: a failed repo.delete_file goes unnoticed.
delete_file_body_unchecked(client, repo, path, flaky) ==
    LET c_repo == Call("get_repo", client, flaky, repo \in RemoteRepos, "404")
        c_get == Call("get_contents", client, flaky, files[path] # 0, "404")
        sha == files[path]
        c_del == [Call("delete_file", client, flaky, files[path] = sha, "409")
                    EXCEPT !.sha = sha]
    IN IF EnsureRaises(client) THEN Raise(NotConfigured, <<>>)
       ELSE IF c_repo.st # "ok" THEN Raise(c_repo.st, <<c_repo>>)
       ELSE IF c_get.st # "ok" THEN Raise(c_get.st, <<c_repo, c_get>>)
       ELSE Return(<<"Successfully deleted file '", path, "'.">>, <<>>, <<>>,
                   <<c_repo, c_get, c_del>>,
                   IF c_del.st = "ok" THEN Commit(path, TRUE) ELSE Remote)

delete_file_body(client, repo, path, flaky) ==
    LET c_repo == Call("get_repo", client, flaky, repo \in RemoteRepos, "404")
        c_get == Call("get_contents", client, flaky, files[path] # 0, "404")
        sha == files[path]
        c_del == [Call("delete_file", client, flaky, files[path] = sha, "409")
                    EXCEPT !.sha = sha]
    IN IF EnsureRaises(client) THEN Raise(NotConfigured, <<>>)
       ELSE IF c_repo.st # "ok" THEN Raise(c_repo.st, <<c_repo>>)
       ELSE IF c_get.st # "ok" THEN Raise(c_get.st, <<c_repo, c_get>>)
       ELSE IF c_del.st # "ok" THEN Raise(c_del.st, <<c_repo, c_get, c_del>>)
       ELSE Return(<<"Successfully deleted file '", path, "'.">>, <<>>, <<>>,
                   <<c_repo, c_get, c_del>>, Commit(path, TRUE))

create_branch_body(client, repo, branch, flaky) ==
    LET c_repo == Call("get_repo", client, flaky, repo \in RemoteRepos, "404")
        c_src == Call("get_branch", client, flaky, TRUE, "ok")
        c_ref == Call("create_git_ref", client, flaky, branches[branch] = -1, "422")
    IN IF EnsureRaises(client) THEN Raise(NotConfigured, <<>>)
       ELSE IF c_repo.st # "ok" THEN Raise(c_repo.st, <<c_repo>>)
       ELSE IF c_src.st # "ok" THEN Raise(c_src.st, <<c_repo, c_src>>)
       ELSE IF c_ref.st # "ok" THEN Raise(c_ref.st, <<c_repo, c_src, c_ref>>)
       ELSE Return(<<"Successfully created branch '", branch, "'.">>, <<>>, <<>>,
                   <<c_repo, c_src, c_ref>>,
                   [Remote EXCEPT !.branches[branch] = head])

create_pull_request_body(client, repo, head_branch, flaky) ==
    LET c_repo == Call("get_repo", client, flaky, repo \in RemoteRepos, "404")
        c_pull == Call("create_pull", client, flaky,
                       branches[head_branch] # -1 /\ head_branch \notin pulls, "422")
        number == ToString(Cardinality(pulls) + 1)
    IN IF EnsureRaises(client) THEN Raise(NotConfigured, <<>>)
       ELSE IF c_repo.st # "ok" THEN Raise(c_repo.st, <<c_repo>>)
       ELSE IF c_pull.st # "ok" THEN Raise(c_pull.st, <<c_repo, c_pull>>)
       ELSE Return(<<"Successfully created Pull Request #", number, ": ",
                     "https://github.com/" \o repo \o "/pull/" \o number>>,
                   <<>>, <<>>, <<c_repo, c_pull>>,
                   [Remote EXCEPT !.pulls = pulls \cup {head_branch}])

get_issue_details_body(client, repo, issue_number, flaky) ==
    LET c_repo == Call("get_repo", client, flaky, repo \in RemoteRepos, "404")
        c_issue == Call("get_issue", client, flaky, issue_number \in Issues, "404")
    IN IF EnsureRaises(client) THEN Raise(NotConfigured, <<>>)
       ELSE IF c_repo.st # "ok" THEN Raise(c_repo.st, <<c_repo>>)
       ELSE IF c_issue.st # "ok" THEN Raise(c_issue.st, <<c_repo, c_issue>>)
       ELSE Return(<<"Issue Title: ", "title#" \o ToString(issue_number), "\\n",
                     "Issue Body: ", "body#" \o ToString(issue_number)>>,
                   <<>>, <<>>, <<c_repo, c_issue>>, Remote)

\* The arguments and outcome of one tool invocation.
Invocation(tool, repo, path, arg, client, result, body) ==
    [tool |-> tool, repo |-> repo, path |-> path, arg |-> arg,
     cred |-> client, before |-> files, calls |-> body.calls,
     raised |-> result.raised, kind |-> result.kind, text |-> result.text,
     list |-> result.list, chars |-> result.chars]

NoInvocation ==
    [tool |-> "", repo |-> "", path |-> "", arg |-> "", cred |-> None,
     before |-> files, calls |-> <<>>, raised |-> FALSE, kind |-> "",
     text |-> <<>>, list |-> <<>>, chars |-> <<>>]

\* A tool call: _ensure_client may set github_client from the environment, the
\* body runs against the remote, the handler formats what is handed back.
Finish(tool, repo, path, arg, client, result, body) ==
    /\ inv' = Invocation(tool, repo, path, arg, client, result, body)
    /\ github_client' = client
    /\ files' = body.remote.files
    /\ head' = body.remote.head
    /\ branches' = body.remote.branches
    /\ pulls' = body.remote.pulls
    /\ UNCHANGED <<env_pat, user_sessions, stored, formVars, runVars>>

list_my_repositories(flaky) ==
    LET client == _ensure_client(github_client, env_pat)
        body == list_my_repositories_body(client, flaky)
    IN Finish("list_my_repositories", "", "", "", client,
              ExceptList(ErrorPrefix("list_my_repositories"), body), body)

list_repository_files(repo, flaky) ==
    LET client == _ensure_client(github_client, env_pat)
        body == list_repository_files_body(client, repo, flaky)
    IN Finish("list_repository_files", repo, "", "", client,
              Except(ErrorPrefix("list_repository_files"), body), body)

read_file(repo, path, flaky) ==
    LET client == _ensure_client(github_client, env_pat)
        body == read_file_body(client, repo, path, flaky)
    IN Finish("read_file", repo, path, "", client,
              Except(ErrorPrefix("read_file"), body), body)

create_or_update_file(repo, path, flaky) ==
    LET client == _ensure_client(github_client, env_pat)
        body == create_or_update_file_body(client, repo, path, flaky)
    IN /\ head < MaxCommits
       /\ Finish("create_or_update_file", repo, path, "", client,
                 Except(ErrorPrefix("create_or_update_file"), body), body)

delete_file(repo, path, flaky) ==
    LET client == _ensure_client(github_client, env_pat)
        body == delete_file_body(client, repo, path, flaky)
    IN /\ head < MaxCommits
       /\ Finish("delete_file", repo, path, "", client,
                 Except(ErrorPrefix("delete_file"), body), body)

create_branch(repo, branch, flaky) ==
    LET client == _ensure_client(github_client, env_pat)
        body == create_branch_body(client, repo, branch, flaky)
    IN Finish("create_branch", repo, "", branch, client,
              Except(ErrorPrefix("create_branch"), body), body)

create_pull_request(repo, head_branch, flaky) ==
    LET client == _ensure_client(github_client, env_pat)
        body == create_pull_request_body(client, repo, head_branch, flaky)
    IN Finish("create_pull_request", repo, "", head_branch, client,
              Except(ErrorPrefix("create_pull_request"), body), body)

get_issue_details(repo, issue_number, flaky) ==
    LET client == _ensure_client(github_client, env_pat)
        body == get_issue_details_body(client, repo, issue_number, flaky)
    IN Finish("get_issue_details", repo, "", ToString(issue_number), client,
              Except(ErrorPrefix("get_issue_details"), body), body)

\* ------------------------------------------------- the credential stores

\* set_github_token as app.py calls it (a token, or None to clear).
SetGithubToken(token) ==
    /\ github_client' = set_github_token(token).client
    /\ env_pat' = set_github_token(token).env
    /\ stored' = [stored EXCEPT !["process"] = IF token = None THEN Absent ELSE token]
    /\ UNCHANGED <<user_sessions, remoteVars, inv, formVars, runVars>>

\* user_sessions.get(session_id)
SessionGet(session_id) ==
    IF user_sessions[session_id] = Absent THEN None ELSE user_sessions[session_id]

\* get_github_client: the token of the client returned, or the 401 raised.
get_github_client(session_id) ==
    IF ~Truthy(SessionGet(session_id))
    THEN [status_code |-> 401, detail |-> "User not authenticated.", token |-> None]
    ELSE [status_code |-> 0, detail |-> "", token |-> SessionGet(session_id)]

\* /callback: the token of the OAuth exchange (None when it failed) is stored
\* under a fresh random session id.
github_callback(session_id, access_token) ==
    /\ user_sessions[session_id] = Absent
    /\ user_sessions' = [user_sessions EXCEPT ![session_id] = access_token]
    /\ stored' = [stored EXCEPT ![session_id] =
                    IF access_token = None THEN Absent ELSE access_token]
    /\ UNCHANGED <<github_client, env_pat, remoteVars, inv, formVars, runVars>>

\* /logout
logout(session_id) ==
    /\ user_sessions' = [user_sessions EXCEPT ![session_id] = Absent]
    /\ stored' = [stored EXCEPT ![session_id] = Absent]
    /\ UNCHANGED <<github_client, env_pat, remoteVars, inv, formVars, runVars>>

\* ------------------------------------------------- initial states

\* Module import: github_client = None, user_sessions = {}; the environment
\* may carry GITHUB_PAT.
InitCred(envs) ==
    /\ github_client = None
    /\ env_pat \in envs
    /\ user_sessions = [i \in SessionIds |-> Absent]
    /\ stored = [k \in SessionIds \cup {"process"} |->
                   IF k = "process" /\ env_pat # None THEN env_pat ELSE Absent]

\* A repository whose first commit wrote the files of present.
InitRemote(presents) ==
    /\ \E present \in presents : files = [p \in Paths |-> IF p \in present THEN 1 ELSE 0]
    /\ head = 1
    /\ branches = [b \in BranchNames |-> -1]
    /\ pulls = {}

InitInv == inv = NoInvocation

\* No browser session has run the script yet.
InitForm ==
    /\ st_pat = [u \in StSessions |-> "unset"]
    /\ offered = [u \in StSessions |-> <<>>]
    /\ selected = [u \in StSessions |-> NoRepo]
    /\ goal = [u \in StSessions |-> NoGoal]
    /\ run_cred = [u \in StSessions |-> NoRun]

\* No request is being served; sys.stdout is the console.
InitRuns(frontends) ==
    /\ frontend \in frontends
    /\ agent_cache = "none"
    /\ pc = [r \in Runs |-> "idle"]
    /\ sys_stdout = "console"
    /\ saved = [r \in Runs |-> "console"]
    /\ stream = [r \in Runs |-> <<>>]
    /\ printed = [r \in Runs |-> <<>>]
    /\ out = [r \in Runs |-> NoOut]
    /\ resp = NoResp

Flaky(ops) == SUBSET ops

\* ------------------------------------------------- SpecTools: the tools

InitTools ==
    /\ InitForm
    /\ InitRuns({"api"})
    /\ InitCred({None} \cup Tokens)
    /\ InitRemote({{"a"}})
    /\ InitInv

NextTools ==
    \/ \E f \in Flaky({"get_user", "get_repos"}) : list_my_repositories(f)
    \/ \E r \in RepoNames, f \in Flaky({"get_repo", "get_git_tree"}) :
          list_repository_files(r, f)
    \/ \E r \in RepoNames, p \in ToolPaths, f \in Flaky({"get_repo", "get_contents"}) :
          read_file(r, p, f)
    \/ \E r \in RepoNames, p \in ToolPaths,
          f \in Flaky({"get_repo", "get_contents", "update_file", "create_file"}) :
          create_or_update_file(r, p, f)
    \/ \E r \in RepoNames, p \in ToolPaths,
          f \in Flaky({"get_repo", "get_contents", "delete_file"}) :
          delete_file(r, p, f)
    \/ \E r \in RepoNames, b \in BranchNames,
          f \in Flaky({"get_repo", "get_branch", "create_git_ref"}) :
          create_branch(r, b, f)
    \/ \E r \in RepoNames, b \in BranchNames, f \in Flaky({"get_repo", "create_pull"}) :
          create_pull_request(r, b, f)
    \/ \E r \in RepoNames, n \in IssueNumbers, f \in Flaky({"get_repo", "get_issue"}) :
          get_issue_details(r, n, f)
    \/ \E t \in Tokens \cup {None} : SetGithubToken(t)

vars == <<credVars, remoteVars, inv, formVars, runVars>>

SpecTools == InitTools /\ [][NextTools]_vars

\* ------------------------------------------------- claims on the tools

AllOk(calls) == \A i \in 1..Len(calls) : calls[i].st = "ok"

OpsOf(calls) == {calls[i].op : i \in 1..Len(calls)}

FailedOps(calls) == {calls[i].op : i \in {j \in 1..Len(calls) : calls[j].st # "ok"}}

\* The error string an invocation handed back (the element of the list for
\* list_my_repositories).
ErrorText(i) ==
    IF i.tool = "list_my_repositories"
    THEN (IF Len(i.list) = 1 THEN i.list[1] ELSE <<>>)
    ELSE i.text

IsToolError(i) ==
    /\ i.kind = "error"
    /\ Len(ErrorText(i)) = 2
    /\ ErrorText(i)[1] = ErrorPrefix(i.tool)

\* The invocation found a file at its path in its repository.
FileExisted(i) == i.repo \in RemoteRepos /\ i.before[i.path] # 0

\* C2 as stated: a tool invoked without a valid credential (none, or a token
\* the platform does not accept) fails and performs zero remote calls.
C2_NoValidCredentialNoRemoteCall ==
    (inv.tool # "" /\ inv.cred \notin ValidTokens)
        => (IsToolError(inv) /\ inv.calls = <<>>)

\* C2 amended: a tool invoked while no credential is configured (no client and
\* no GITHUB_PAT in the environment) fails with its own error string carrying
\* the "token not configured" message and performs zero remote calls.
C2_NoCredentialNoRemoteCall ==
    (inv.tool # "" /\ inv.cred = None)
        => /\ IsToolError(inv)
           /\ ErrorText(inv)[2] = NotConfigured
           /\ inv.calls = <<>>
           /\ files = inv.before

C2_Witness ==
    /\ inv.tool = "create_or_update_file"
    /\ inv.cred = None
    /\ stored["process"] = Absent
    /\ inv.kind = "error"

\* C3: one call of create_or_update_file answers "created" for a path without
\* a file and "updated" for a path with one, and never attempts both
\* repo.update_file and repo.create_file.
C3_CreateOrUpdateNeverBoth ==
    inv.tool = "create_or_update_file"
        => /\ (inv.kind = "success" /\ ~FileExisted(inv))
                => inv.text[1] = "Successfully created file '"
           /\ (inv.kind = "success" /\ FileExisted(inv))
                => inv.text[1] = "Successfully updated file '"
           /\ ~({"update_file", "create_file"} \subseteq OpsOf(inv.calls))

\* C5 as stated: no tool raises, a failure at any step comes back as the
\* tool's error string, and a success comes back only when every remote call
\* of the invocation succeeded.
C5_SuccessOnlyIfEveryCallSucceeded ==
    inv.tool # ""
        => /\ ~inv.raised
           /\ inv.kind \in {"success", "error"}
           /\ inv.kind = "error" => IsToolError(inv)
           /\ inv.kind = "success" => (inv.cred # None /\ AllOk(inv.calls))

\* The one success after a failed remote call: create_or_update_file whose
\* lookup or update failed and whose create_file then succeeded.
CreatedAfterFailure(i) ==
    /\ i.tool = "create_or_update_file"
    /\ i.text[1] = "Successfully created file '"
    /\ FailedOps(i.calls) \subseteq {"get_contents", "update_file"}
    /\ i.calls[Len(i.calls)].op = "create_file"
    /\ i.calls[Len(i.calls)].st = "ok"

\* C5 amended: no tool raises; an invocation without a credential or with a
\* failed remote call hands back the tool's own error string (one element for
\* list_my_repositories), except that create_or_update_file answers "created"
\* when create_file succeeds after its lookup or update_file failed; any other
\* success comes back only when every remote call succeeded.
C5_FailuresComeBackAsErrorStrings ==
    inv.tool # ""
        => /\ ~inv.raised
           /\ inv.kind \in {"success", "error"}
           /\ inv.kind = "error"
                => /\ IsToolError(inv)
                   /\ inv.cred = None \/ ~AllOk(inv.calls)
                   /\ inv.tool = "list_my_repositories" => Len(inv.list) = 1
           /\ inv.kind = "success"
                => /\ inv.cred # None
                   /\ AllOk(inv.calls) \/ CreatedAfterFailure(inv)

C5_Witness ==
    /\ inv.tool = "create_pull_request"
    /\ inv.cred \in ValidTokens
    /\ inv.before = files
    /\ branches[inv.arg] = -1
    /\ inv.calls[Len(inv.calls)] = [op |-> "create_pull", sha |-> 0, st |-> "422"]
    /\ inv.text = <<"Error creating pull request: ", "422">>

\* C7 as stated, for invocations that carry a credential the platform
\* accepts: delete_file on a path without a file answers "Error deleting
\* file" and leaves the repository unchanged; on a path with a file it fetches
\* the content hash, removes the file at that revision and answers with a
\* success string naming the path.
C7_DeleteExistingSucceeds ==
    (inv.tool = "delete_file" /\ inv.cred \in ValidTokens)
        => /\ ~FileExisted(inv)
                => (IsToolError(inv) /\ files = inv.before)
           /\ FileExisted(inv)
                => /\ inv.kind = "success"
                   /\ inv.text = <<"Successfully deleted file '", inv.path, "'.">>
                   /\ files = [inv.before EXCEPT ![inv.path] = 0]

\* C7 amended: without a file at the path the answer is "Error deleting file"
\* and the repository is unchanged; with a file there, a configured
\* credential and the repository lookup, the content lookup and the delete
\* call all succeeding, the hash is fetched first, the file is removed at that
\* hash and the answer is the success string naming the path; when any of
\* them fails the answer is "Error deleting file" and the repository is
\* unchanged.
C7_DeleteFile ==
    inv.tool = "delete_file"
        => /\ ~FileExisted(inv)
                => (IsToolError(inv) /\ files = inv.before)
           /\ (FileExisted(inv) /\ inv.cred # None /\ AllOk(inv.calls))
                => inv.kind = "success"
           /\ inv.kind = "success"
                => /\ FileExisted(inv)
                   /\ Len(inv.calls) = 3
                   /\ inv.calls[2] = [op |-> "get_contents", sha |-> 0, st |-> "ok"]
                   /\ inv.calls[3] = [op |-> "delete_file",
                                      sha |-> inv.before[inv.path], st |-> "ok"]
                   /\ inv.text = <<"Successfully deleted file '", inv.path, "'.">>
                   /\ files = [inv.before EXCEPT ![inv.path] = 0]
           /\ inv.kind = "error"
                => /\ IsToolError(inv)
                   /\ files = inv.before
                   /\ inv.cred = None \/ ~AllOk(inv.calls)

C7_Witness ==
    /\ inv.tool = "delete_file"
    /\ inv.kind = "success"
    /\ inv.before[inv.path] # 0
    /\ files[inv.path] = 0

\* ------------------------------------------------- SpecCred: the stores

\* A tool resolving the process-wide client.
EnsureClient ==
    /\ github_client' = _ensure_client(github_client, env_pat)
    /\ UNCHANGED <<env_pat, user_sessions, stored, remoteVars, inv, formVars, runVars>>

InitCredStores ==
    /\ InitForm
    /\ InitRuns({"api"})
    /\ InitCred({None} \cup Tokens)
    /\ InitRemote({{"a"}})
    /\ InitInv

NextCred ==
    \/ \E t \in Tokens \cup {None} : SetGithubToken(t)
    \/ EnsureClient
    \/ \E i \in SessionIds, t \in Tokens \cup {None} : github_callback(i, t)
    \/ \E i \in SessionIds : logout(i)

SpecCred == InitCredStores /\ [][NextCred]_vars

\* What the last set or clear of a key leaves to resolve: the token, or None.
Expected(key) == IF stored[key] = Absent THEN None ELSE stored[key]

\* C1: after any sequence of set and clear operations, resolving a key with no
\* stored credential fails (RuntimeError of _ensure_client, 401 of
\* get_github_client), resolving after a set with a token yields the client
\* of exactly that token, and resolving after a clear or a logout fails again.
C1_ResolveFollowsLastSet ==
    /\ _ensure_client(github_client, env_pat) = Expected("process")
    /\ EnsureRaises(_ensure_client(github_client, env_pat)) <=> stored["process"] = Absent
    /\ \A i \in SessionIds :
          /\ get_github_client(i).token = Expected(i)
          /\ get_github_client(i).status_code = 401 <=> stored[i] = Absent

C1_Witness ==
    /\ stored["process"] = Absent
    /\ env_pat = None
    /\ stored["s1"] = "tokB"
    /\ user_sessions["s2"] = None
    /\ get_github_client("s2").status_code = 401
    /\ get_github_client("s1").token = "tokB"

\* ------------------------------------------------- SpecList: the listing

InitList ==
    /\ InitForm
    /\ InitRuns({"api"})
    /\ InitCred({"tokA"})
    /\ InitRemote(SUBSET Paths)
    /\ InitInv

NextList ==
    \E r \in RepoNames, f \in Flaky({"get_repo", "get_git_tree"}) :
        list_repository_files(r, f)

SpecList == InitList /\ [][NextList]_vars

\* The blob paths of a tree, in tree order, as strings.
BlobPaths(tree) ==
    LET blobs == SelectSeq(tree, LAMBDA e : e.type = "blob")
    IN [i \in 1..Len(blobs) |-> Chars(blobs[i].path)]

\* C6: the successful output of list_repository_files is the blob paths of the
\* default-branch tree joined by newline characters, and splitting it on the
\* newline character gives back exactly the blob paths (stated for trees with
\* at least one blob).
C6_ListingIsNewlineJoined ==
    (inv.tool = "list_repository_files" /\ inv.kind = "success"
     /\ Len(BlobPaths(TreeOf(inv.before))) > 0)
        => /\ inv.chars = Join(BlobPaths(TreeOf(inv.before)), <<NL>>)
           /\ Split(inv.chars, NL) = BlobPaths(TreeOf(inv.before))

\* ------------------------------------------------- SpecForm: app.py's script

Elements(seq) == {seq[i] : i \in 1..Len(seq)}

\* One run of app.py's script for browser session u: click is the sidebar
\* button pressed (if any), pat_input the token typed, choice the option
\* picked in the selectbox at its last rendering, task and filled the task
\* form, submit the "Run Agent" button (enabled only with a selected_repo).
ScriptRun(u, click, pat_input, choice, task, filled, submit, flaky) ==
    LET pat0 == IF st_pat[u] = "unset"
                THEN (IF env_pat = None THEN "" ELSE env_pat)
                ELSE st_pat[u]
        pat1 == CASE click = "connect" -> pat_input
                  [] click = "disconnect" -> ""
                  [] OTHER -> pat0
        token == IF pat1 = "" THEN None ELSE pat1
        cred == IF click = "none"
                THEN [client |-> github_client, env |-> env_pat]
                ELSE set_github_token(token)
        invoked == pat1 # ""
        client == IF invoked THEN _ensure_client(cred.client, cred.env) ELSE cred.client
        body == list_my_repositories_body(client, flaky)
        result == ExceptList(ErrorPrefix("list_my_repositories"), body)
        repos == IF invoked THEN result.list ELSE <<>>
        selected_repo == IF invoked /\ choice \in Elements(repos) THEN choice ELSE NoRepo
        goal_to_run == IF filled /\ selected_repo # NoRepo
                       THEN [task |-> task, repo |-> selected_repo, run |-> submit]
                       ELSE NoGoal
    IN /\ choice \in Elements(offered[u]) \cup {NoRepo}
       /\ submit => selected[u] # NoRepo
       /\ st_pat' = [st_pat EXCEPT ![u] = pat1]
       /\ github_client' = client
       /\ env_pat' = cred.env
       /\ stored' = IF click = "none" THEN stored
                    ELSE [stored EXCEPT !["process"] =
                            IF token = None THEN Absent ELSE token]
       /\ inv' = IF invoked
                 THEN Invocation("list_my_repositories", "", "", "", client, result, body)
                 ELSE inv
       /\ offered' = [offered EXCEPT ![u] = repos]
       /\ selected' = [selected EXCEPT ![u] = selected_repo]
       /\ goal' = [goal EXCEPT ![u] = goal_to_run]
       /\ run_cred' = [run_cred EXCEPT ![u] =
                         IF goal_to_run.run
                         THEN [owner |-> pat1, used |-> <<>>]
                         ELSE NoRun]
       /\ UNCHANGED <<user_sessions, remoteVars, runVars>>

InitFormSpec ==
    /\ InitCred({None, "tokA"})
    /\ InitRemote({{"a"}})
    /\ InitInv
    /\ InitForm
    /\ InitRuns({"app"})

NextForm ==
    \/ \E u \in StSessions, click \in {"none", "connect", "disconnect"},
          pat_input \in Tokens \cup {""},
          choice \in UNION {Elements(offered[v]) : v \in StSessions} \cup {NoRepo},
          task \in TaskKeys, filled \in BOOLEAN, submit \in BOOLEAN,
          flaky \in Flaky({"get_user", "get_repos"}) :
          ScriptRun(u, click, pat_input, choice, task, filled, submit, flaky)
    \/ \E t \in Tokens \cup {None} : SetGithubToken(t)

SpecForm == InitFormSpec /\ [][NextForm]_vars

\* The tools the agent of a form run calls in the model, and the file they act on.
RunTools == {"read_file", "create_or_update_file"}

RunPath == "a"

\* One tool invocation of the agent run that session u's script run started
\* (agent_executor.invoke calls the tool functions of github_tools): the tool
\* takes its client from _ensure_client, on the repository of goal_to_run.
RunTool(u, tool, flaky) ==
    LET client == _ensure_client(github_client, env_pat)
        repo == goal[u].repo[1]
        body == IF tool = "read_file"
                THEN read_file_body(client, repo, RunPath, flaky)
                ELSE create_or_update_file_body(client, repo, RunPath, flaky)
        result == Except(ErrorPrefix(tool), body)
    IN /\ goal[u].run
       /\ run_cred[u] # NoRun
       /\ Len(run_cred[u].used) < MaxInvocations
       /\ tool = "create_or_update_file" => head < MaxCommits
       /\ inv' = Invocation(tool, repo, RunPath, "", client, result, body)
       /\ github_client' = client
       /\ files' = body.remote.files
       /\ head' = body.remote.head
       /\ branches' = body.remote.branches
       /\ pulls' = body.remote.pulls
       /\ run_cred' = [run_cred EXCEPT ![u].used = Append(@, client)]
       /\ UNCHANGED <<env_pat, user_sessions, stored, st_pat, offered, selected,
                      goal, runVars>>

\* The form front end with its agent runs; SetGithubToken is the connect or
\* disconnect of another browser session of the same process.
NextBind ==
    \/ \E u \in StSessions, click \in {"none", "connect", "disconnect"},
          pat_input \in {"tokA"},
          choice \in UNION {Elements(offered[v]) : v \in StSessions} \cup {NoRepo},
          task \in {"file_write"}, filled \in BOOLEAN, submit \in BOOLEAN,
          flaky \in Flaky({"get_repos"}) :
          ScriptRun(u, click, pat_input, choice, task, filled, submit, flaky)
    \/ \E t \in {"tokB", None} : SetGithubToken(t)
    \/ \E u \in StSessions, tool \in RunTools, flaky \in Flaky({"get_contents"}) :
          RunTool(u, tool, flaky)

SpecBind == InitFormSpec /\ [][NextBind]_vars

\* A repository name that is list_my_repositories' error string.
StartsWithError(name) ==
    Len(name) > 0 /\ name[1] = ErrorPrefix("list_my_repositories")

\* C9: a failed list_my_repositories hands back one element starting with
\* "Error", and the form never offers that element as a repository to select
\* and never builds an agent goal with it as the repository name.
C9_ErrorStringNeverARepository ==
    /\ (inv.tool = "list_my_repositories" /\ inv.kind = "error")
          => (Len(inv.list) = 1 /\ StartsWithError(inv.list[1]))
    /\ \A u \in StSessions :
          /\ \A name \in Elements(offered[u]) : ~StartsWithError(name)
          /\ goal[u] # NoGoal => ~StartsWithError(goal[u].repo)

\* ------------------------------------------------- SpecApi: requests and runs

\* What the caller of a run gets back.
Outcome(how, http, status, message, output, logs, ran, authed, failure) ==
    [how |-> how, http |-> http, status |-> status, message |-> message,
     output |-> output, logs |-> logs, ran |-> ran, authed |-> authed,
     failure |-> failure]

\* POST /run-agent, up to the call of run_agent: HTTPException from
\* get_github_client is caught and its detail returned as a normal response.
run_agent_endpoint(r, session_id) ==
    LET auth == get_github_client(session_id)
        authed == Truthy(SessionGet(session_id))
    IN /\ frontend = "api"
       /\ pc[r] = "idle"
       /\ IF auth.status_code = 401
          THEN /\ out' = [out EXCEPT ![r] =
                    Outcome("returned", 200, "error", auth.detail, "", <<>>,
                            FALSE, authed, "")]
               /\ pc' = [pc EXCEPT ![r] = "done"]
          ELSE /\ out' = [out EXCEPT ![r] =
                    Outcome("", 0, "", "", "", <<>>, TRUE, authed, "")]
               /\ pc' = [pc EXCEPT ![r] = "setup"]
       /\ UNCHANGED <<credVars, remoteVars, inv, formVars, frontend, agent_cache,
                      sys_stdout, saved, stream, printed, resp>>

\* app.py's script run while the resource cache holds no agent: load_agent
\* runs (line 71), before any form is rendered.
AppFirstRun(r) ==
    /\ frontend = "app"
    /\ pc[r] = "idle"
    /\ agent_cache = "none"
    /\ out' = [out EXCEPT ![r] = Outcome("", 0, "", "", "", <<>>, FALSE, TRUE, "")]
    /\ pc' = [pc EXCEPT ![r] = "setup"]
    /\ UNCHANGED <<credVars, remoteVars, inv, formVars, frontend, agent_cache,
                   sys_stdout, saved, stream, printed, resp>>

\* app.py's script run with the form submitted and a goal built: load_agent
\* is answered from the resource cache and the run block is entered.
AppSubmit(r) ==
    /\ frontend = "app"
    /\ pc[r] = "idle"
    /\ agent_cache = "loaded"
    /\ out' = [out EXCEPT ![r] = Outcome("", 0, "", "", "", <<>>, TRUE, TRUE, "")]
    /\ pc' = [pc EXCEPT ![r] = "ready"]
    /\ UNCHANGED <<credVars, remoteVars, inv, formVars, frontend, agent_cache,
                   sys_stdout, saved, stream, printed, resp>>

\* Agent setup (tools, llm, hub.pull, create_tool_calling_agent,
\* AgentExecutor): it is outside every try of the run, so when it raises the
\* exception leaves run_agent and run_agent_endpoint (which catches
\* HTTPException only), and leaves app.py's script.
AgentSetup(r, outcome) ==
    /\ pc[r] = "setup"
    /\ outcome = "nokey" => frontend = "app"
    /\ CASE outcome = "raise" ->
              /\ out' = [out EXCEPT ![r] =
                    Outcome("propagated", IF frontend = "api" THEN 500 ELSE 0, "", "",
                            "", <<>>, out[r].ran, out[r].authed, "setup")]
              /\ pc' = [pc EXCEPT ![r] = "done"]
              /\ UNCHANGED agent_cache
         [] outcome = "nokey" ->
              /\ out' = [out EXCEPT ![r] =
                    Outcome("returned", 0, "error", "GEMINI_API_KEY not found.", "",
                            <<>>, FALSE, out[r].authed, "")]
              /\ pc' = [pc EXCEPT ![r] = "done"]
              /\ agent_cache' = "error"
         [] outcome = "ok" ->
              /\ pc' = [pc EXCEPT ![r] = IF frontend = "app" THEN "idle" ELSE "ready"]
              /\ agent_cache' = IF frontend = "app" THEN "loaded" ELSE agent_cache
              /\ UNCHANGED out
    /\ UNCHANGED <<credVars, remoteVars, inv, formVars, frontend,
                   sys_stdout, saved, stream, printed, resp>>

\* log_stream = io.StringIO(); with redirect_stdout(log_stream): the old
\* sys.stdout is kept and sys.stdout becomes this run's stream.
EnterRedirect(r) ==
    /\ pc[r] = "ready"
    /\ stream' = [stream EXCEPT ![r] = <<>>]
    /\ saved' = [saved EXCEPT ![r] = sys_stdout]
    /\ sys_stdout' = r
    /\ pc' = [pc EXCEPT ![r] = "invoking"]
    /\ UNCHANGED <<credVars, remoteVars, inv, formVars, frontend, agent_cache,
                   printed, out, resp>>

\* A tool invoked by run r prints its diagnostic line: print writes to
\* whatever sys.stdout is at that moment.
ToolPrint(r) ==
    LET line == r \o "#" \o ToString(Len(printed[r]) + 1)
    IN /\ pc[r] = "invoking"
       /\ Len(printed[r]) < MaxLines
       /\ printed' = [printed EXCEPT ![r] = Append(@, line)]
       /\ stream' = IF sys_stdout = "console" THEN stream
                    ELSE [stream EXCEPT ![sys_stdout] = Append(@, line)]
       /\ UNCHANGED <<credVars, remoteVars, inv, formVars, frontend, agent_cache,
                      pc, sys_stdout, saved, out, resp>>

\* The text a caught failure of invoke is reported with.
FailureText == IF frontend = "api" THEN "An error occurred: e"
               ELSE "An error occurred while running the agent: e"

\* agent_executor.invoke returns or raises: either way the logs are read from
\* the run's stream, the answer (or the error text) is handed back and
\* redirect_stdout puts back the sys.stdout it kept.
InvokeEnd(r, raised) ==
    /\ pc[r] = "invoking"
    /\ out' = [out EXCEPT ![r] =
          Outcome("returned", IF frontend = "api" THEN 200 ELSE 0, "success", "",
                  IF raised THEN FailureText ELSE "final answer",
                  stream[r], TRUE, out[r].authed, IF raised THEN "invoke" ELSE "")]
    /\ sys_stdout' = saved[r]
    /\ pc' = [pc EXCEPT ![r] = "done"]
    /\ UNCHANGED <<credVars, remoteVars, inv, formVars, frontend, agent_cache,
                   saved, stream, printed, resp>>

\* POST /user/repos: every exception, the 401 included, is caught and
\* returned as a normal response carrying str(e).
get_user_repos(session_id, flaky) ==
    LET auth == get_github_client(session_id)
        authed == Truthy(SessionGet(session_id))
        c_user == Call("get_user", auth.token, flaky, TRUE, "ok")
        c_repos == Call("get_repos", auth.token, flaky, TRUE, "ok")
        answer(status, message, repos, calls) ==
            [session |-> session_id, http |-> 200, status |-> status,
             message |-> message, repos |-> repos, calls |-> calls, authed |-> authed]
    IN /\ frontend = "api"
       /\ resp' = IF auth.status_code = 401
                  THEN answer("error", "401: " \o auth.detail, <<>>, <<>>)
                  ELSE IF c_user.st # "ok"
                  THEN answer("error", c_user.st, <<>>, <<c_user>>)
                  ELSE IF c_repos.st # "ok"
                  THEN answer("error", c_repos.st, <<>>, <<c_user, c_repos>>)
                  ELSE answer("success", "", AccountRepos(auth.token), <<c_user, c_repos>>)
       /\ UNCHANGED <<credVars, remoteVars, inv, formVars, frontend, agent_cache,
                      pc, sys_stdout, saved, stream, printed, out>>

InitApi ==
    /\ InitCred({"tokA"})
    /\ InitRemote({{"a"}})
    /\ InitInv
    /\ InitForm
    /\ InitRuns({"api", "app"})

NextApi ==
    \/ \E i \in SessionIds, t \in {"tokA", None} : github_callback(i, t)
    \/ \E i \in SessionIds : logout(i)
    \/ \E i \in SessionIds, f \in Flaky({"get_user", "get_repos"}) : get_user_repos(i, f)
    \/ \E r \in Runs, i \in SessionIds : run_agent_endpoint(r, i)
    \/ \E r \in Runs : AppFirstRun(r)
    \/ \E r \in Runs : AppSubmit(r)
    \/ \E r \in Runs, o \in {"ok", "raise", "nokey"} : AgentSetup(r, o)
    \/ \E r \in Runs : EnterRedirect(r)
    \/ \E r \in Runs : ToolPrint(r)
    \/ \E r \in Runs, raised \in BOOLEAN : InvokeEnd(r, raised)

SpecApi == InitApi /\ [][NextApi]_vars

\* C4: a /run-agent or /user/repos request whose session has no stored
\* non-empty credential is answered with HTTP status 401 and a structured
\* failure, and starts no agent run and no remote call.
C4_UnauthenticatedIs401 ==
    /\ \A r \in Runs :
          (frontend = "api" /\ pc[r] = "done" /\ ~out[r].authed)
             => /\ out[r].http = 401
                /\ out[r].status = "error"
                /\ ~out[r].ran
    /\ (resp.session # "" /\ ~resp.authed)
          => /\ resp.http = 401
             /\ resp.status = "error"
             /\ resp.calls = <<>>

\* C8: when the execution framework raises during the setup or the invoke of
\* an agent run, the run still returns normally, with the failure as the answer
\* text and with the trace its stream holds.
C8_RunFailureIsCaught ==
    \A r \in Runs :
        (pc[r] = "done" /\ out[r].ran /\ out[r].failure # "")
           => /\ out[r].how = "returned"
              /\ out[r].output = FailureText
              /\ out[r].logs = stream[r]

\* C10: the trace a run returns holds exactly the lines its own tool
\* invocations printed, in order, whatever other runs do meanwhile.
C10_TraceIsOwnLines ==
    \A r \in Runs :
        (pc[r] = "done" /\ out[r].how = "returned" /\ out[r].ran)
           => out[r].logs = printed[r]

\* ------------------------------------------------- claims on the branches

\* One step leaves every existing branch where it points, moves no branch
\* when it commits on the default branch, and a branch that appears points at
\* the tip the default branch has at that moment.
BranchesKept ==
    /\ \A b \in BranchNames : branches[b] # -1 => branches'[b] = branches[b]
    /\ (head' # head \/ files' # files) => branches' = branches
    /\ \A b \in BranchNames :
          branches'[b] # branches[b] => (branches'[b] = head /\ head' = head)

\* C12: create_or_update_file and delete_file commit on the default branch
\* only; a branch made by create_branch points at the default-branch tip of
\* the moment it was made, is left where it points by every later write or
\* delete, and so never holds a commit that is not on the default branch.
C12_OnlyDefaultBranchModified ==
    /\ [][BranchesKept]_vars
    /\ [](\A b \in BranchNames : branches[b] <= head)
    /\ []((inv.tool = "create_branch" /\ inv.kind = "success")
            => branches[inv.arg] = head)
    /\ []((inv.tool \in {"create_or_update_file", "delete_file"}
           /\ inv.kind = "success")
            => (head > 1 /\ files # inv.before))

C12_Witness ==
    /\ inv.tool = "delete_file"
    /\ inv.kind = "success"
    /\ branches["feature/x"] = 1
    /\ head = 3
    /\ files["d/b"] = 2

\* ------------------------------------------------- claims on the agent run

\* C11: every tool invocation of an agent run uses the credential of the
\* session that started the run, also when another session connects or
\* disconnects between two tool invocations of the run.
C11_RunBoundToOneCredential ==
    \A u \in StSessions :
       \A i \in 1..Len(run_cred[u].used) :
          run_cred[u].used[i] = run_cred[u].owner

====
